---- MODULE Spec2Model ----
(***************************************************************************)
(* pytools.persistent_dict: the KeyBuilder persistent hash and the two     *)
(* sqlite-backed dictionaries PersistentDict and WriteOncePersistentDict.  *)
(*                                                                         *)
(* One backing file ("dict" table) is shared by NumHandles dictionary      *)
(* objects, each with its own sqlite connection and, for the write-once    *)
(* class, its own functools.lru_cache in front of _fetch.                  *)
(***************************************************************************)
EXTENDS Integers, Sequences, FiniteSets, TLC

\* ------------------------------------------------------------------ bounds
NumHandles == 2         \* dictionary objects opened on the same file
MaxRowid == 3           \* stores are not issued once rowid would exceed this
MaxOpen == 2            \* dictionaries opened by name
NumObjs == 1            \* dataclass instances given to the key builder
InMemCacheSize == 2     \* the in_mem_cache_size constructor argument

Handles == 1..NumHandles
ObjIds == 1..NumObjs

\* ------------------------------------------------------- Python values
\* Text is a sequence of code points, bytes a sequence of 0..255.
PyStr(chars) == [kind |-> "str", chars |-> chars]
PyBytes(bytes) == [kind |-> "bytes", bytes |-> bytes]
PyBool(b) == [kind |-> "bool", flag |-> b]
PyInt(n) == [kind |-> "int", n |-> n]
\* an int of any size: its sign and the base-256 digits of its magnitude,
\* least significant first, the last one not 0 (none for 0)
PyLong(neg, mag) == [kind |-> "int", neg |-> neg, mag |-> mag]
PyNone == [kind |-> "NoneType"]
PyTuple(items) == [kind |-> "tuple", items |-> items]
\* mappings carry their (key, value) pairs in iteration order
PyDict(pairs) == [kind |-> "dict", pairs |-> pairs]
PyFrozendict(pairs) == [kind |-> "frozendict", pairs |-> pairs]
PyList(items) == [kind |-> "list", items |-> items]
\* a frozenset carries its elements in iteration order
PyFrozenset(items) == [kind |-> "frozenset", items |-> items]
\* a member of an enum.Enum class
PyEnum(class_name, member) ==
    [kind |-> "enum", class_name |-> class_name, member |-> member]
\* an instance of a dataclass with one field: its class, the field's name and
\* value, and its _pytools_persistent_hash_digest attribute, <<>> when unset
PyDataclass(qualname, field_name, field_value, memo) ==
    [kind |-> "dataclass", qualname |-> qualname, field_name |-> field_name,
     field_value |-> field_value, memo |-> memo]
\* a reference to the instance with that id on the heap
PyRef(id) == [kind |-> "ref", id |-> id]

\* --------------------------------------------------------- Hash protocol
\* A hash object is the sequence of chunks fed to it so far.  A chunk is
\* raw bytes, the 32 bytes of another hash's digest, or the 32 bytes of an
\* xor of digests.  sha256 is taken to be collision free: two hash objects
\* give the same digest exactly when they were fed the same bytes.
new_hash == <<>>

HashUpdateBytes(key_hash, bytes) ==
    IF bytes = <<>> THEN key_hash
    ELSE IF key_hash # <<>> /\ "raw" \in DOMAIN key_hash[Len(key_hash)]
         THEN [key_hash EXCEPT ![Len(key_hash)] =
                  [raw |-> key_hash[Len(key_hash)].raw \o bytes]]
         ELSE Append(key_hash, [raw |-> bytes])

HashUpdateDigest(key_hash, digest) == Append(key_hash, [dig |-> digest])

HashDigest(key_hash) == [sha |-> key_hash]

HashHexdigest(key_hash) == [hex |-> HashDigest(key_hash)]

\* ------------------------------------------------------------ exceptions
\* A call either returns (exc = "") or raises the named exception.
Ok(hash) == [exc |-> "", hash |-> hash]
Raise(exc, arg) == [exc |-> exc, arg |-> arg]

\* ----------------------------------------------------------- conversions
\* str.encode("utf8"), for code points below 0x800
RECURSIVE Utf8Encode(_)
Utf8Encode(chars) ==
    IF chars = <<>> THEN <<>>
    ELSE LET c == Head(chars)
         IN (IF c < 128 THEN <<c>>
             ELSE <<192 + (c \div 64), 128 + (c % 64)>>) \o Utf8Encode(Tail(chars))

\* str(key) of a bool: "True" / "False"
StrOfBool(flag) ==
    IF flag THEN <<84, 114, 117, 101>> ELSE <<70, 97, 108, 115, 101>>

RECURSIVE LittleEndian(_, _)
LittleEndian(n, sz) ==
    IF sz = 0 THEN <<>> ELSE <<n % 256>> \o LittleEndian(n \div 256, sz - 1)

RECURSIVE Magnitude(_)
Magnitude(m) == IF m = 0 THEN <<>> ELSE <<m % 256>> \o Magnitude(m \div 256)

\* the sign and magnitude of an int object
Long(key) ==
    IF "n" \in DOMAIN key
    THEN [neg |-> key.n < 0,
          mag |-> Magnitude(IF key.n < 0 THEN 0 - key.n ELSE key.n)]
    ELSE [neg |-> key.neg, mag |-> key.mag]

Zeros(count) == [i \in 1..count |-> 0]

\* the two's complement of a byte string: every byte inverted, plus one
RECURSIVE TwosComplement(_, _)
TwosComplement(bytes, carry) ==
    IF bytes = <<>> THEN <<>>
    ELSE LET sum == (255 - Head(bytes)) + carry
         IN <<sum % 256>> \o TwosComplement(Tail(bytes), sum \div 256)

\* an encoding of the magnitude alone, whatever the sign
to_bytes_Magnitude(n, sz) ==
    IF Len(n.mag) <= sz
    THEN [exc |-> "", bytes |-> n.mag \o Zeros(sz - Len(n.mag))]
    ELSE Raise("OverflowError", sz)

\* int.to_bytes(sz, byteorder="little", signed=True): the sz bytes of the
\* two's complement form; OverflowError when the value needs more than sz bytes
to_bytes(n, sz) ==
    LET used == Len(n.mag)
        fits == \/ used < sz
                \/ used = sz /\ n.mag[sz] < 128
                \/ /\ used = sz /\ n.neg /\ n.mag[sz] = 128
                   /\ \A i \in 1..(sz - 1) : n.mag[i] = 0
        padded == n.mag \o Zeros(sz - used)
    IN IF fits
       THEN [exc |-> "",
             bytes |-> IF n.neg THEN TwosComplement(padded, 1) ELSE padded]
       ELSE Raise("OverflowError", sz)

\* ------------------------------------------------------------ KeyBuilder
\* type names for which getattr(self, "update_for_" + tname) finds a method
\* taking the value itself (lines 227-332)
UpdateMethodNames ==
    {"type", "ABCMeta", "int", "bool", "float", "complex", "str", "bytes",
     "tuple", "frozenset", "FrozenOrderedSet", "NoneType", "dtype",
     "frozendict", "immutabledict", "constantdict", "PMap", "Map"}

update_for_str(key_hash, key) ==
    Ok(HashUpdateBytes(key_hash, Utf8Encode(key.chars)))

update_for_bytes(key_hash, key) ==
    Ok(HashUpdateBytes(key_hash, key.bytes))

update_for_bool(key_hash, key) ==
    Ok(HashUpdateBytes(key_hash, Utf8Encode(StrOfBool(key.flag))))

update_for_NoneType(key_hash, key) ==
    Ok(HashUpdateBytes(key_hash, <<60, 78, 111, 110, 101, 62>>))

RECURSIVE IntLoop(_, _, _)
IntLoop(key_hash, n, sz) ==
    LET b == to_bytes(n, sz)
    IN IF b.exc = "" THEN Ok(HashUpdateBytes(key_hash, b.bytes))
       ELSE IntLoop(key_hash, n, sz * 2)

update_for_int(key_hash, key) == IntLoop(key_hash, Long(key), 8)

\* pytools.unordered_hash: xor of the sha256 of every item, fed to
\* hash_instance as one 32-byte block.  Under xor an item occurring an even
\* number of times cancels, so the block is identified with the set of items
\* occurring an odd number of times.
RECURSIVE XorFold(_)
XorFold(items) ==
    IF items = <<>> THEN {}
    ELSE LET h == HashDigest(HashUpdateDigest(new_hash, Head(items)))
             rest == XorFold(Tail(items))
         IN IF h \in rest THEN rest \ {h} ELSE rest \cup {h}

unordered_hash(hash_instance, items) ==
    Append(hash_instance, [xor |-> XorFold(items)])

RECURSIVE rec(_, _)
RECURSIVE TupleLoop(_, _)
RECURSIVE PairDigests(_)
RECURSIVE ItemDigests(_)

\* for obj_i in key: self.rec(key_hash, obj_i)
TupleLoop(key_hash, items) ==
    IF items = <<>> THEN Ok(key_hash)
    ELSE LET r == rec(key_hash, Head(items))
         IN IF r.exc # "" THEN r ELSE TupleLoop(r.hash, Tail(items))

update_for_tuple(key_hash, key) == TupleLoop(key_hash, key.items)

\* (self.rec(self.new_hash(), (k, v)).digest() for k, v in key.items())
PairDigests(pairs) ==
    IF pairs = <<>> THEN [exc |-> "", digests |-> <<>>]
    ELSE LET r == rec(new_hash, PyTuple(Head(pairs)))
         IN IF r.exc # "" THEN r
            ELSE LET rest == PairDigests(Tail(pairs))
                 IN IF rest.exc # "" THEN rest
                    ELSE [exc |-> "",
                          digests |-> <<HashDigest(r.hash)>> \o rest.digests]

\* the pair digests fed one after the other, in iteration order
update_for_frozendict_InOrder(key_hash, key) ==
    LET ds == PairDigests(key.pairs)
        RECURSIVE Feed(_, _)
        Feed(hash, digests) ==
            IF digests = <<>> THEN hash
            ELSE Feed(HashUpdateDigest(hash, Head(digests)), Tail(digests))
    IN IF ds.exc # "" THEN ds ELSE Ok(Feed(key_hash, ds.digests))

update_for_frozendict(key_hash, key) ==
    LET ds == PairDigests(key.pairs)
    IN IF ds.exc # "" THEN ds ELSE Ok(unordered_hash(key_hash, ds.digests))

\* (self.rec(self.new_hash(), key_i).digest() for key_i in key)
ItemDigests(items) ==
    IF items = <<>> THEN [exc |-> "", digests |-> <<>>]
    ELSE LET r == rec(new_hash, Head(items))
         IN IF r.exc # "" THEN r
            ELSE LET rest == ItemDigests(Tail(items))
                 IN IF rest.exc # "" THEN rest
                    ELSE [exc |-> "",
                          digests |-> <<HashDigest(r.hash)>> \o rest.digests]

update_for_frozenset(key_hash, key) ==
    LET ds == ItemDigests(key.items)
    IN IF ds.exc # "" THEN ds ELSE Ok(unordered_hash(key_hash, ds.digests))

\* str(key) of a member of a plain Enum class: "Class.MEMBER"
StrOfEnum(key) == key.class_name \o <<46>> \o key.member

update_for_enum(key_hash, key) ==
    update_for_str(key_hash, PyStr(StrOfEnum(key)))

\* self.rec(key_hash, "QualName.Name"), then for every field
\* self.rec(key_hash, fld.name); self.rec(key_hash, getattr(key, fld.name))
update_for_dataclass(key_hash, key) ==
    TupleLoop(key_hash,
              <<PyStr(key.qualname \o <<46>> \o key.qualname),
                PyStr(key.field_name), key.field_value>>)

\* object.__setattr__ fails on the built-in immutables, so only a dataclass
\* instance carries a memoized digest; rec reads it here, and the call that
\* ran rec stores it (KeyBuilder_call).  No value modelled has the
\* update_persistent_hash hook.  A type without an update_for_ method that is
\* neither an Enum, a dataclass nor an attrs class (dict, list) ends in the
\* TypeError of line 203; so does, here, a kind whose method is not
\* translated, and no key of such a kind is built below.
rec(key_hash, key) ==
    LET tname == key.kind
        digest == IF tname = "dataclass" THEN key.memo ELSE <<>>
        inner ==
            IF tname = "int" THEN update_for_int(new_hash, key)
            ELSE IF tname = "bool" THEN update_for_bool(new_hash, key)
            ELSE IF tname = "str" THEN update_for_str(new_hash, key)
            ELSE IF tname = "bytes" THEN update_for_bytes(new_hash, key)
            ELSE IF tname = "tuple" THEN update_for_tuple(new_hash, key)
            ELSE IF tname = "frozenset"
                THEN update_for_frozenset(new_hash, key)
            ELSE IF tname = "NoneType" THEN update_for_NoneType(new_hash, key)
            ELSE IF tname = "frozendict"
                THEN update_for_frozendict(new_hash, key)
            ELSE IF tname \in UpdateMethodNames
                THEN Raise("TypeError", tname)
            ELSE IF tname = "enum" THEN update_for_enum(new_hash, key)
            ELSE IF tname = "dataclass"
                THEN update_for_dataclass(new_hash, key)
            ELSE Raise("TypeError", tname)
    IN IF digest # <<>> THEN Ok(HashUpdateDigest(key_hash, digest[1]))
       ELSE IF inner.exc # "" THEN inner
       ELSE Ok(HashUpdateDigest(key_hash, HashDigest(inner.hash)))

\* a key builder that hashes the type's name where rec finds no method
KeyBuilderCall_TypeName(key) ==
    LET r == rec(new_hash, key)
    IN IF r.exc # ""
       THEN [exc |-> "", hex |-> HashHexdigest(HashUpdateBytes(new_hash, <<r.arg>>))]
       ELSE [exc |-> "", hex |-> HashHexdigest(r.hash)]

\* KeyBuilder.__call__
KeyBuilderCall(key) ==
    LET r == rec(new_hash, key)
    IN IF r.exc # "" THEN r ELSE [exc |-> "", hex |-> HashHexdigest(r.hash)]

\* ---------------------------------------------------------------- pickle
\* pickle.dumps (protocol 4) of a bytes object shorter than 256 bytes and of
\* an int in 0..255: PROTO 4, [FRAME len,] SHORT_BINBYTES/BININT1, STOP
dumps(value) ==
    IF value.kind = "bytes"
    THEN <<128, 4, 149>> \o LittleEndian(Len(value.bytes) + 4, 8)
         \o <<67, Len(value.bytes)>> \o value.bytes \o <<148, 46>>
    ELSE <<128, 4, 75, value.n, 46>>

loads(blob) ==
    LET body == IF blob[3] = 149 THEN SubSeq(blob, 12, Len(blob))
                ELSE SubSeq(blob, 3, Len(blob))
    IN IF body[1] = 67 THEN PyBytes(SubSeq(body, 3, 2 + body[2]))
       ELSE PyInt(body[2])

\* ----------------------------------------------------------- sqlite table
\* CREATE TABLE dict (key text NOT NULL PRIMARY KEY, value): a set of rows,
\* each with the implicit integer rowid.
SetMax(S) == CHOOSE x \in S : \A y \in S : y <= x

\* sqlite picks max(rowid) + 1 for a new row (1 in an empty table)
NewRowid(rows) ==
    IF rows = {} THEN 1 ELSE SetMax({r.rowid : r \in rows}) + 1

RowsWithKey(rows, k) == {r \in rows : r.key = k}

\* INSERT INTO dict VALUES (?, ?)
SqlInsert(rows, k, v) ==
    IF RowsWithKey(rows, k) # {}
    THEN [exc |-> "IntegrityError", rows |-> rows, changes |-> 0]
    ELSE [exc |-> "",
          rows |-> rows \cup {[rowid |-> NewRowid(rows), key |-> k, value |-> v]},
          changes |-> 1]

\* INSERT OR IGNORE: the conflicting row stays as it is
SqlInsertOrIgnore(rows, k, v) ==
    IF RowsWithKey(rows, k) = {}
    THEN [exc |-> "",
          rows |-> rows \cup {[rowid |-> NewRowid(rows), key |-> k, value |-> v]},
          changes |-> 1]
    ELSE [exc |-> "", rows |-> rows, changes |-> 0]

\* an upsert that rewrites the value of the conflicting row where it is
SqlUpsertInPlace(rows, k, v) ==
    IF RowsWithKey(rows, k) = {}
    THEN [exc |-> "",
          rows |-> rows \cup {[rowid |-> NewRowid(rows), key |-> k, value |-> v]},
          changes |-> 1]
    ELSE [exc |-> "",
          rows |-> {IF r.key = k THEN [r EXCEPT !.value = v] ELSE r : r \in rows},
          changes |-> 1]

\* INSERT OR REPLACE INTO dict VALUES (?, ?): the conflicting row is deleted
\* and the new row gets a fresh rowid
SqlInsertOrReplace(rows, k, v) ==
    [exc |-> "",
     rows |-> (rows \ RowsWithKey(rows, k))
              \cup {[rowid |-> NewRowid(rows), key |-> k, value |-> v]},
     changes |-> 1]

\* DELETE FROM dict WHERE key=?
SqlDeleteKey(rows, k) ==
    [exc |-> "", rows |-> rows \ RowsWithKey(rows, k),
     changes |-> Cardinality(RowsWithKey(rows, k))]

\* DELETE FROM dict;
SqlDeleteAll(rows) ==
    [exc |-> "", rows |-> {}, changes |-> Cardinality(rows)]

\* SELECT ... FROM dict ORDER BY rowid
RECURSIVE OrderByRowid(_)
OrderByRowid(rows) ==
    IF rows = {} THEN <<>>
    ELSE LET first == CHOOSE r \in rows : \A q \in rows : r.rowid <= q.rowid
         IN <<first>> \o OrderByRowid(rows \ {first})

\* ------------------------------------------------------ functools.lru_cache
\* The cache of one wrapped _fetch: entries from least to most recently used.
CacheIndex(entries, k) ==
    IF \E i \in 1..Len(entries) : entries[i].key = k
    THEN CHOOSE i \in 1..Len(entries) : entries[i].key = k
    ELSE 0

RemoveAt(entries, i) ==
    SubSeq(entries, 1, i - 1) \o SubSeq(entries, i + 1, Len(entries))

\* a hit that leaves the entry where it is: first in, first out
LruHit_NoMove(entries, i) == entries

\* a hit moves the entry to the most recently used end
LruHit(entries, i) == Append(RemoveAt(entries, i), entries[i])

\* a computed result is added, evicting the least recently used entry of a
\* full cache; maxsize 0 keeps nothing
LruAdd(entries, k, result, maxsize) ==
    IF maxsize = 0 THEN entries
    ELSE IF Len(entries) >= maxsize
         THEN Append(Tail(entries), [key |-> k, result |-> result])
         ELSE Append(entries, [key |-> k, result |-> result])

\* ------------------------------------------------------- keys and values
Compile == PyStr(<<99, 111, 109, 112, 105, 108, 101>>)
OptPair == <<PyStr(<<111, 112, 116>>), PyInt(2)>>
FlagsPair == <<PyStr(<<102, 108, 97, 103, 115>>),
               PyTuple(<<PyStr(<<97>>), PyStr(<<98>>)>>)>>

KStrTrue == PyStr(<<84, 114, 117, 101>>)                \* "True"
KBoolTrue == PyBool(TRUE)                               \* True
\* ("compile", {"opt": 2, "flags": ("a", "b")}) with the mapping a dict,
\* a frozendict, and an equal frozendict built in the other order
KCompileDict == PyTuple(<<Compile, PyDict(<<OptPair, FlagsPair>>)>>)
KCompileFrozen == PyTuple(<<Compile, PyFrozendict(<<OptPair, FlagsPair>>)>>)
KCompileFrozen2 == PyTuple(<<Compile, PyFrozendict(<<FlagsPair, OptPair>>)>>)

Keys == {KStrTrue, KBoolTrue, KCompileDict, KCompileFrozen, KCompileFrozen2}

Values == {PyBytes(<<65>>), PyInt(7)}

\* Python ==: an int and a bool compare by number (True == 1), frozensets
\* as sets, mappings of one kind as sets of pairs, tuples item by item, and
\* everything else here structurally (a bool never equals a str)
NumberOf(a) == IF a.kind = "int" THEN a.n ELSE IF a.flag THEN 1 ELSE 0

RECURSIVE PyEq(_, _)
PyEq(a, b) ==
    IF a.kind \in {"int", "bool"} /\ b.kind \in {"int", "bool"}
        THEN NumberOf(a) = NumberOf(b)
    ELSE IF a.kind # b.kind THEN FALSE
    ELSE IF a.kind \in {"dict", "frozendict"}
        THEN /\ \A i \in 1..Len(a.pairs) : \E j \in 1..Len(b.pairs) :
                   /\ PyEq(a.pairs[i][1], b.pairs[j][1])
                   /\ PyEq(a.pairs[i][2], b.pairs[j][2])
             /\ \A j \in 1..Len(b.pairs) : \E i \in 1..Len(a.pairs) :
                   /\ PyEq(a.pairs[i][1], b.pairs[j][1])
                   /\ PyEq(a.pairs[i][2], b.pairs[j][2])
    ELSE IF a.kind = "frozenset"
        THEN /\ \A i \in 1..Len(a.items) : \E j \in 1..Len(b.items) :
                   PyEq(a.items[i], b.items[j])
             /\ \A j \in 1..Len(b.items) : \E i \in 1..Len(a.items) :
                   PyEq(a.items[i], b.items[j])
    ELSE IF a.kind = "tuple"
        THEN /\ Len(a.items) = Len(b.items)
             /\ \A i \in 1..Len(a.items) : PyEq(a.items[i], b.items[i])
    ELSE a = b

\* keys no update_for_ method takes: a dict, a list, a list inside tuples
KDict == PyDict(<<OptPair>>)
KList == PyList(<<PyInt(1)>>)
KNestedList == PyTuple(<<PyStr(<<97>>), PyTuple(<<PyStr(<<98>>), KList>>)>>)

UnsupportedKeys == {KDict, KList, KNestedList, KCompileDict}

\* the values given to the key builder directly
NoneText == <<60, 78, 111, 110, 101, 62>>               \* "<None>"
Color == <<67>>                                         \* class C(Enum)
Red == <<82>>                                           \* C.R

Atoms ==
    {PyNone, PyStr(NoneText), PyBytes(NoneText), PyBool(TRUE), KStrTrue,
     PyInt(1), PyInt(2), PyEnum(Color, Red)}

\* the iteration orders of the sets and mappings of at most two atoms, no two
\* equal elements (or keys) in one collection
DistinctPairs == {p \in Atoms \X Atoms : ~PyEq(p[1], p[2])}

Frozensets ==
    {PyFrozenset(<<>>)} \cup {PyFrozenset(<<a>>) : a \in Atoms}
    \cup {PyFrozenset(p) : p \in DistinctPairs}

Frozendicts ==
    {PyFrozendict(<<<<a, PyInt(1)>>>>) : a \in Atoms}
    \cup {PyFrozendict(<<<<p[1], PyInt(1)>>, <<p[2], PyInt(2)>>>>) :
            p \in DistinctPairs}
    \cup {PyFrozendict(<<<<p[2], PyInt(2)>>, <<p[1], PyInt(1)>>>>) :
            p \in DistinctPairs}

Tuples == {PyTuple(p) : p \in Atoms \X Atoms}

HashKeys == Atoms \cup Tuples \cup Frozensets \cup Frozendicts

MaxBytes == 17             \* the longest magnitude of an int key, in bytes

\* magnitudes of a given length around the powers of 256: the top byte at
\* and next to the sign bit, the lower bytes all 0, all 255, or 1 then 0
LowBytes(count) ==
    IF count = 0 THEN {<<>>}
    ELSE {Zeros(count), [i \in 1..count |-> 255],
          [i \in 1..count |-> IF i = 1 THEN 1 ELSE 0]}

Magnitudes ==
    {<<>>} \cup UNION {{low \o <<top>> : low \in LowBytes(used - 1),
                                        top \in {1, 127, 128, 255}} :
                      used \in 1..MaxBytes}

IntKeys ==
    {PyLong(FALSE, mag) : mag \in Magnitudes}
    \cup {PyLong(TRUE, mag) : mag \in Magnitudes \ {<<>>}}
    \cup {PyInt(2), PyInt(7)}

KBytes == PyBytes(<<107>>)                              \* b"k"

AllKeys == Keys \cup UnsupportedKeys \cup {KBytes}

\* self.key_builder(key) for every key the callers of the dictionaries use
KeyHash == [key \in AllKeys |-> KeyBuilderCall(key)]

\* KeyBuilder()(key) for every value given to the key builder directly
HashOf == [key \in HashKeys |-> KeyBuilderCall(key)]

\* ------------------------------------------------------------------ state
VARIABLES
    cls,        \* the class of the dictionaries opened on the file
    rows,       \* the rows of the dict table of the file
    cache,      \* per handle: the lru_cache around _fetch (write-once only)
    changes,    \* per handle: what SELECT changes() returns on its connection
    pc,         \* per handle: where its creating thread is inside remove()
    last,       \* the call that acted most recently, with its outcome
    stored,     \* history: the keys some store call has returned normally for
    disk,       \* the rows of every file written by a dictionary of conns
    conns,      \* the dictionaries opened by name, in the order of opening
    heap,       \* the dataclass instances given to the key builder
    misses      \* history: the fetches that found no entry, and the stores
                \* after them whose value the handle has not fetched yet

vars ==
    <<cls, rows, cache, changes, pc, last, stored, disk, conns, heap, misses>>

Idle == [at |-> "idle", key |-> PyNone, removed |-> 0]

Completed(h, thread, op, key, value, exc, ret) ==
    [h |-> h, thread |-> thread, op |-> op, key |-> key, value |-> value,
     exc |-> exc, ret |-> ret]

\* _PersistentDictBase.__init__ on a file that does not exist yet
Init ==
    /\ cls \in {"WriteOnce", "Mutable"}
    /\ rows = {}
    /\ cache = [h \in Handles |-> <<>>]
    /\ changes = [h \in Handles |-> 0]
    /\ pc = [h \in Handles |-> Idle]
    /\ last = Completed(0, "owner", "__init__", PyNone, PyNone, "", PyNone)
    /\ stored = {}
    /\ disk = {}
    /\ conns = <<>>
    /\ heap = [id \in ObjIds |-> [x |-> PyInt(1), memo |-> <<>>]]
    /\ misses = [missed |-> {}, owed |-> {}]

\* ------------------------------------------------ WriteOncePersistentDict
WriteOnceStoreBody(h, op, key, value, skip_if_present) ==
    LET k == KeyHash[key]
        ins == SqlInsert(rows, k.hex, dumps(value))
    IN /\ cls = "WriteOnce"
       /\ pc[h].at = "idle"
       /\ NewRowid(rows) <= MaxRowid
       /\ IF k.exc # ""
          THEN /\ last' = Completed(h, "owner", op, key, value, k.exc, PyNone)
               /\ UNCHANGED <<rows, changes>>
          ELSE /\ rows' = ins.rows
               /\ UNCHANGED changes
               /\ last' = Completed(h, "owner", op, key, value,
                              IF ins.exc # "" /\ ~skip_if_present
                              THEN "ReadOnlyEntryError" ELSE "", PyNone)
       /\ stored' = IF last'.exc = "" THEN stored \cup {key} ELSE stored
       /\ UNCHANGED <<cls, heap, disk, conns, cache, pc>>

WriteOnce_store(h, key, value) ==
    WriteOnceStoreBody(h, "store", key, value, FALSE)

WriteOnce_store_if_not_present(h, key, value) ==
    WriteOnceStoreBody(h, "store_if_not_present", key, value, TRUE)

\* the undecorated _fetch: SELECT value FROM dict WHERE key=?
WriteOnce__fetch(keyhash) ==
    IF RowsWithKey(rows, keyhash) = {}
    THEN Raise("KeyError", keyhash)
    ELSE [exc |-> "",
          ret |-> loads((CHOOSE r \in RowsWithKey(rows, keyhash) : TRUE).value)]

\* self._fetch after __init__ wrapped it in lru_cache(maxsize=in_mem_cache_size)
CachedFetch(entries, keyhash) ==
    LET i == CacheIndex(entries, keyhash)
        r == WriteOnce__fetch(keyhash)
    IN IF i # 0
       THEN [exc |-> "", ret |-> entries[i].result, entries |-> LruHit(entries, i)]
       ELSE IF r.exc # ""
            THEN [exc |-> r.exc, ret |-> PyNone, entries |-> entries]
            ELSE [exc |-> "", ret |-> r.ret,
                  entries |-> LruAdd(entries, keyhash, r.ret, InMemCacheSize)]

\* what fetch(key) raises or returns for a handle with the given cache
FetchOutcome(entries, key) ==
    LET k == KeyHash[key]
        f == CachedFetch(entries, k.hex)
    IN IF k.exc # "" THEN [exc |-> k.exc, ret |-> PyNone, entries |-> entries]
       ELSE IF f.exc = "KeyError"
            THEN [exc |-> "NoSuchEntryError", ret |-> PyNone, entries |-> entries]
            ELSE f

WriteOnce_fetch(h, key) ==
    LET f == FetchOutcome(cache[h], key)
    IN /\ cls = "WriteOnce"
       /\ pc[h].at = "idle"
       /\ cache' = [cache EXCEPT ![h] = f.entries]
       /\ last' = Completed(h, "owner", "fetch", key, PyNone, f.exc, f.ret)
       /\ UNCHANGED <<cls, heap, disk, conns, rows, changes, pc, stored>>

\* a cache clear that also runs DELETE FROM dict
WriteOnce_clear_everything(h) ==
    /\ cls = "WriteOnce"
    /\ pc[h].at = "idle"
    /\ rows' = SqlDeleteAll(rows).rows
    /\ cache' = [cache EXCEPT ![h] = <<>>]
    /\ last' = Completed(h, "owner", "clear_in_mem_cache", PyNone, PyNone, "", PyNone)
    /\ UNCHANGED <<cls, heap, disk, conns, changes, pc, stored>>

WriteOnce_clear_in_mem_cache(h) ==
    /\ cls = "WriteOnce"
    /\ pc[h].at = "idle"
    /\ cache' = [cache EXCEPT ![h] = <<>>]
    /\ last' = Completed(h, "owner", "clear_in_mem_cache", PyNone, PyNone, "", PyNone)
    /\ UNCHANGED <<cls, heap, disk, conns, rows, changes, pc, stored>>

\* the inherited clear alone, without self._fetch.cache_clear()
WriteOnce_clear_table_only(h) ==
    LET del == SqlDeleteAll(rows)
    IN /\ cls = "WriteOnce"
       /\ pc[h].at = "idle"
       /\ rows' = del.rows
       /\ last' = Completed(h, "owner", "clear", PyNone, PyNone, "", PyNone)
       /\ UNCHANGED <<cls, heap, disk, conns, cache, changes, pc, stored>>

\* _PersistentDictBase.clear(self); self._fetch.cache_clear()
WriteOnce_clear(h) ==
    LET del == SqlDeleteAll(rows)
    IN /\ cls = "WriteOnce"
       /\ pc[h].at = "idle"
       /\ rows' = del.rows
       /\ cache' = [cache EXCEPT ![h] = <<>>]
       /\ last' = Completed(h, "owner", "clear", PyNone, PyNone, "", PyNone)
       /\ UNCHANGED <<cls, heap, disk, conns, changes, pc, stored>>

\* --------------------------------------------------------- PersistentDict
PersistentStoreBody(h, op, key, value, skip_if_present) ==
    LET k == KeyHash[key]
        ins == IF skip_if_present THEN SqlInsert(rows, k.hex, dumps(value))
               ELSE SqlInsertOrReplace(rows, k.hex, dumps(value))
    IN /\ cls = "Mutable"
       /\ pc[h].at = "idle"
       /\ NewRowid(rows) <= MaxRowid
       /\ IF k.exc # ""
          THEN /\ last' = Completed(h, "owner", op, key, value, k.exc, PyNone)
               /\ UNCHANGED <<rows, changes>>
          ELSE /\ rows' = ins.rows
               /\ changes' = IF ins.exc = ""
                             THEN [changes EXCEPT ![h] = ins.changes]
                             ELSE changes
               /\ last' = Completed(h, "owner", op, key, value, "", PyNone)
       /\ stored' = IF last'.exc = "" THEN stored \cup {key} ELSE stored
       /\ UNCHANGED <<cls, heap, disk, conns, cache, pc>>

Persistent_store(h, key, value) ==
    PersistentStoreBody(h, "store", key, value, FALSE)

Persistent_store_if_not_present(h, key, value) ==
    PersistentStoreBody(h, "store_if_not_present", key, value, TRUE)

Persistent_fetch(h, key) ==
    LET k == KeyHash[key]
        found == RowsWithKey(rows, k.hex)
    IN /\ cls = "Mutable"
       /\ pc[h].at = "idle"
       /\ last' = IF k.exc # ""
                  THEN Completed(h, "owner", "fetch", key, PyNone, k.exc, PyNone)
                  ELSE IF found = {}
                  THEN Completed(h, "owner", "fetch", key, PyNone,
                                 "NoSuchEntryError", PyNone)
                  ELSE Completed(h, "owner", "fetch", key, PyNone, "",
                                 loads((CHOOSE r \in found : TRUE).value))
       /\ UNCHANGED <<cls, heap, disk, conns, rows, cache, changes, pc, stored>>

\* remove(), first statement: DELETE FROM dict WHERE key=?
\* pc[h].removed remembers how many rows the table held for the key when the
\* statement ran.
Persistent_remove_delete(h, key) ==
    LET k == KeyHash[key]
        del == SqlDeleteKey(rows, k.hex)
    IN /\ cls = "Mutable"
       /\ pc[h].at = "idle"
       /\ IF k.exc # ""
          THEN /\ last' = Completed(h, "owner", "remove", key, PyNone, k.exc, PyNone)
               /\ UNCHANGED <<rows, changes, pc>>
          ELSE /\ rows' = del.rows
               /\ changes' = [changes EXCEPT ![h] = del.changes]
               /\ pc' = [pc EXCEPT ![h] = [at |-> "remove", key |-> key,
                                  removed |-> Cardinality(RowsWithKey(rows, k.hex))]]
               /\ last' = Completed(h, "owner", "remove", key, PyNone,
                                    "<running>", PyNone)
       /\ UNCHANGED <<cls, heap, disk, conns, cache, stored>>

\* the second statement replaced by a look at the table: is the key gone?
Persistent_remove_recheck(h) ==
    /\ cls = "Mutable"
    /\ pc[h].at = "remove"
    /\ last' = Completed(h, "owner", "remove", pc[h].key, PyNone,
                         IF RowsWithKey(rows, KeyHash[pc[h].key].hex) # {}
                         THEN "NoSuchEntryError" ELSE "",
                         PyNone)
    /\ pc' = [pc EXCEPT ![h] = Idle]
    /\ UNCHANGED <<cls, heap, disk, conns, rows, cache, changes, stored>>

\* remove(), second statement: SELECT changes() on the same connection
Persistent_remove_changes(h) ==
    /\ cls = "Mutable"
    /\ pc[h].at = "remove"
    /\ last' = Completed(h, "owner", "remove", pc[h].key, PyNone,
                         IF changes[h] = 0 THEN "NoSuchEntryError" ELSE "",
                         PyNone)
    /\ pc' = [pc EXCEPT ![h] = Idle]
    /\ UNCHANGED <<cls, heap, disk, conns, rows, cache, changes, stored>>

\* _PersistentDictBase.clear, as inherited by PersistentDict
Persistent_clear(h) ==
    LET del == SqlDeleteAll(rows)
    IN /\ cls = "Mutable"
       /\ pc[h].at = "idle"
       /\ rows' = del.rows
       /\ changes' = [changes EXCEPT ![h] = del.changes]
       /\ last' = Completed(h, "owner", "clear", PyNone, PyNone, "", PyNone)
       /\ UNCHANGED <<cls, heap, disk, conns, cache, pc, stored>>

\* ---------------------------------------------------- _PersistentDictBase
len == Cardinality(rows)

keys ==
    LET sel == OrderByRowid(rows) IN [i \in 1..Len(sel) |-> sel[i].key]

values ==
    LET sel == OrderByRowid(rows) IN [i \in 1..Len(sel) |-> loads(sel[i].value)]

items ==
    LET sel == OrderByRowid(rows)
    IN [i \in 1..Len(sel) |-> <<sel[i].key, loads(sel[i].value)>>]

\* __len__, and keys(), values(), items() run to exhaustion
Iterate(h, op) ==
    /\ pc[h].at = "idle"
    /\ last' = Completed(h, "owner", op, PyNone, PyNone, "",
                   IF op = "__len__" THEN PyInt(len)
                   ELSE IF op = "keys" THEN PyList(keys)
                   ELSE IF op = "values" THEN PyList(values)
                   ELSE PyList(items))
    /\ UNCHANGED <<cls, heap, disk, conns, rows, cache, changes, pc, stored>>

\* sqlite3.connect was called without check_same_thread=False: a statement
\* issued on self.conn by a thread other than the one that opened the
\* dictionary raises sqlite3.ProgrammingError before it touches the file or
\* the connection.  The call hashes its key first, and a write-once fetch
\* that finds the digest in the lru_cache returns without a statement.
OtherThreadExecute(h, op, key) ==
    LET k == KeyHash[key]
        i == IF cls = "WriteOnce" /\ op = "fetch" /\ k.exc = ""
             THEN CacheIndex(cache[h], k.hex) ELSE 0
    IN /\ op \in (IF cls = "Mutable" THEN {"store", "fetch", "remove", "clear"}
                  ELSE {"store", "fetch", "clear"})
       /\ IF op # "clear" /\ k.exc # ""
          THEN /\ last' = Completed(h, "other", op, key, PyNone, k.exc, PyNone)
               /\ UNCHANGED cache
          ELSE IF i # 0
          THEN /\ last' = Completed(h, "other", op, key, PyNone, "",
                                    cache[h][i].result)
               /\ cache' = [cache EXCEPT ![h] = LruHit(cache[h], i)]
          ELSE /\ last' = Completed(h, "other", op, IF op = "clear" THEN PyNone ELSE key,
                                    PyNone, "ProgrammingError", PyNone)
               /\ UNCHANGED cache
       /\ UNCHANGED <<cls, heap, disk, conns, rows, changes, pc, stored>>

\* one call, or one statement of remove(), on a handle of HS with a key of KS
Step(HS, KS) ==
    \E h \in HS :
        \/ \E key \in KS, value \in Values :
               WriteOnce_store(h, key, value) /\ UNCHANGED misses
        \/ \E key \in KS, value \in Values :
               WriteOnce_store_if_not_present(h, key, value) /\ UNCHANGED misses
        \/ \E key \in KS : WriteOnce_fetch(h, key) /\ UNCHANGED misses
        \/ WriteOnce_clear_in_mem_cache(h) /\ UNCHANGED misses
        \/ WriteOnce_clear(h) /\ UNCHANGED misses
        \/ \E key \in KS, value \in Values :
               Persistent_store(h, key, value) /\ UNCHANGED misses
        \/ \E key \in KS, value \in Values :
               Persistent_store_if_not_present(h, key, value) /\ UNCHANGED misses
        \/ \E key \in KS : Persistent_fetch(h, key) /\ UNCHANGED misses
        \/ \E key \in KS : Persistent_remove_delete(h, key) /\ UNCHANGED misses
        \/ Persistent_remove_changes(h) /\ UNCHANGED misses
        \/ Persistent_clear(h) /\ UNCHANGED misses
        \/ \E op \in {"__len__", "keys", "values", "items"} :
               Iterate(h, op) /\ UNCHANGED misses
        \/ \E op \in {"store", "fetch", "remove", "clear"}, key \in KS :
               OtherThreadExecute(h, op, key) /\ UNCHANGED misses

\* every handle, all on the same key
Next == Step(Handles, {KStrTrue})

Spec == Init /\ [][Next]_vars

\* one handle, on every key
NextKeys == Step({1}, Keys)

SpecKeys == Init /\ [][NextKeys]_vars

\* one handle, on two keys with different digests
NextOrder == Step({1}, {KStrTrue, KCompileFrozen})

SpecOrder == Init /\ [][NextOrder]_vars

\* one handle, on a key that can be hashed and on the keys that cannot
NextUnsupported == Step({1}, {KStrTrue} \cup UnsupportedKeys)

SpecUnsupported == Init /\ [][NextUnsupported]_vars

\* one handle, on three keys with different digests
NextLru == Step({1}, {KStrTrue, KCompileFrozen, KBytes})

SpecLru == Init /\ [][NextLru]_vars

\* the history of a call that has just returned or raised: a fetch on the
\* creating thread that raised NoSuchEntryError is a miss of its handle; a
\* store that returned normally is owed to every handle that has missed the
\* key, until that handle fetches the key or the table changes otherwise
Noted ==
    LET miss == /\ last'.op = "fetch" /\ last'.thread = "owner"
                /\ last'.exc = "NoSuchEntryError"
    IN misses' =
         [missed |-> IF miss THEN misses.missed \cup {<<last'.h, last'.key>>}
                     ELSE misses.missed,
          owed |-> IF last'.op = "store" /\ last'.exc = ""
                   THEN {o \in misses.owed : o[2] # last'.key}
                        \cup {<<m[1], m[2], last'.value>> :
                                m \in {m \in misses.missed : m[2] = last'.key}}
                   ELSE IF last'.op = "fetch"
                   THEN misses.owed \ {<<last'.h, last'.key, v>> : v \in Values}
                   ELSE IF rows' # rows THEN {}
                   ELSE misses.owed]

\* the calls of the write-once class on every handle, all on the same key,
\* with the history of the misses
NextMiss ==
    \E h \in Handles :
        \/ \E value \in Values : WriteOnce_store(h, KStrTrue, value) /\ Noted
        \/ \E value \in Values :
               WriteOnce_store_if_not_present(h, KStrTrue, value) /\ Noted
        \/ WriteOnce_fetch(h, KStrTrue) /\ Noted
        \/ WriteOnce_clear_in_mem_cache(h) /\ Noted
        \/ WriteOnce_clear(h) /\ Noted

SpecMiss == Init /\ [][NextMiss]_vars

\* ------------------------------------------- opening a dictionary by name
\* str(i) of a non-negative int
Digits == <<"0", "1", "2", "3", "4", "5", "6", "7", "8", "9">>

RECURSIVE StrOfInt(_)
StrOfInt(n) ==
    IF n < 10 THEN Digits[n + 1]
    ELSE StrOfInt(n \div 10) \o Digits[(n % 10) + 1]

\* ".".join(str(i) for i in sys.version_info)
VersionString(version_info) ==
    StrOfInt(version_info.major) \o "." \o StrOfInt(version_info.minor)
    \o "." \o StrOfInt(version_info.micro) \o "." \o version_info.releaselevel
    \o "." \o StrOfInt(version_info.serial)

\* os.path.join of a directory without a trailing separator and a relative name
PathJoin(dir, name) == dir \o "/" \o name

\* a file name that leaves the identifier out
Filename_NoIdentifier(container_dir, identifier, version_info) ==
    PathJoin(container_dir,
             "pdict-v6-" \o VersionString(version_info) \o ".sqlite")

\* self.filename
Filename(container_dir, identifier, version_info) ==
    PathJoin(container_dir,
             "pdict-v6-" \o identifier \o VersionString(version_info) \o ".sqlite")

ContainerDirs == {"/c"}
Identifiers == {"a", "a3"}
VersionInfos ==
    {[major |-> 3, minor |-> 11, micro |-> 6, releaselevel |-> "final", serial |-> 0],
     [major |-> 3, minor |-> 12, micro |-> 0, releaselevel |-> "final", serial |-> 0]}

\* the dict table of a file: CREATE TABLE IF NOT EXISTS gives a file that
\* does not exist yet an empty table and keeps the rows of one that does
Table(file) ==
    {[rowid |-> r.rowid, key |-> r.key, value |-> r.value] :
        r \in {x \in disk : x.file = file}}

WriteTable(file, table) ==
    {x \in disk : x.file # file}
    \cup {[file |-> file, rowid |-> r.rowid, key |-> r.key, value |-> r.value] :
            r \in table}

\* __init__(identifier, container_dir=container_dir) of either class, in an
\* interpreter of the given version
Open(container_dir, identifier, version_info) ==
    /\ Len(conns) < MaxOpen
    /\ conns' = Append(conns,
                    [file |-> Filename(container_dir, identifier, version_info),
                     container_dir |-> container_dir,
                     identifier |-> identifier,
                     version_info |-> version_info,
                     entries |-> <<>>,
                     wrote |-> FALSE])
    /\ last' = Completed(Len(conns) + 1, "owner", "__init__", PyNone, PyNone,
                         "", PyNone)
    /\ UNCHANGED <<cls, heap, rows, cache, changes, pc, stored, disk>>

\* store(key, value) on the i-th dictionary opened
Conn_store(i, key, value) ==
    LET k == KeyHash[key]
        table == Table(conns[i].file)
        ins == IF cls = "WriteOnce" THEN SqlInsert(table, k.hex, dumps(value))
               ELSE SqlInsertOrReplace(table, k.hex, dumps(value))
    IN /\ i \in DOMAIN conns
       /\ k.exc = ""
       /\ NewRowid(table) <= MaxRowid
       /\ disk' = WriteTable(conns[i].file, ins.rows)
       /\ conns' = IF ins.exc = "" THEN [conns EXCEPT ![i].wrote = TRUE] ELSE conns
       /\ last' = Completed(i, "owner", "store", key, value,
                            IF ins.exc # "" THEN "ReadOnlyEntryError" ELSE "",
                            PyNone)
       /\ UNCHANGED <<cls, heap, rows, cache, changes, pc, stored>>

\* what fetch(key) on the i-th dictionary opened raises or returns: the
\* write-once class looks in the dictionary's lru_cache first
ConnFetchOutcome(i, key) ==
    LET k == KeyHash[key]
        found == RowsWithKey(Table(conns[i].file), k.hex)
        hit == IF cls = "WriteOnce" THEN CacheIndex(conns[i].entries, k.hex) ELSE 0
    IN IF hit # 0
       THEN [exc |-> "", ret |-> conns[i].entries[hit].result,
             entries |-> LruHit(conns[i].entries, hit)]
       ELSE IF found = {}
       THEN [exc |-> "NoSuchEntryError", ret |-> PyNone,
             entries |-> conns[i].entries]
       ELSE LET value == loads((CHOOSE r \in found : TRUE).value)
            IN [exc |-> "", ret |-> value,
                entries |-> IF cls = "WriteOnce"
                            THEN LruAdd(conns[i].entries, k.hex, value,
                                        InMemCacheSize)
                            ELSE conns[i].entries]

Conn_fetch(i, key) ==
    LET f == ConnFetchOutcome(i, key)
    IN /\ i \in DOMAIN conns
       /\ KeyHash[key].exc = ""
       /\ conns' = [conns EXCEPT ![i].entries = f.entries]
       /\ last' = Completed(i, "owner", "fetch", key, PyNone, f.exc, f.ret)
       /\ UNCHANGED <<cls, heap, rows, cache, changes, pc, stored, disk>>

\* dictionaries opened by name, in interpreters of either version
NextOpen ==
    \/ \E container_dir \in ContainerDirs, identifier \in Identifiers,
          version_info \in VersionInfos :
           Open(container_dir, identifier, version_info) /\ UNCHANGED misses
    \/ \E i \in 1..MaxOpen, value \in Values :
           Conn_store(i, KStrTrue, value) /\ UNCHANGED misses
    \/ \E i \in 1..MaxOpen : Conn_fetch(i, KStrTrue) /\ UNCHANGED misses

SpecOpen == Init /\ [][NextOpen]_vars

\* ------------------------------------------------ the key builder alone
\* the instance with that id: @dataclass class P: x: int
Deref(id) == PyDataclass(<<80>>, <<120>>, heap[id].x, heap[id].memo)

\* a key with every reference replaced by the instance as it is now
ResolveKey(key) ==
    IF key.kind = "ref" THEN Deref(key.id)
    ELSE IF key.kind = "tuple" /\ key.items # <<>> /\ key.items[1].kind = "ref"
         THEN PyTuple([i \in 1..Len(key.items) |-> Deref(key.items[i].id)])
    ELSE key

Refs(key) ==
    IF key.kind = "ref" THEN {key.id}
    ELSE IF key.kind = "tuple" /\ key.items # <<>> /\ key.items[1].kind = "ref"
         THEN {key.items[i].id : i \in 1..Len(key.items)}
    ELSE {}

ObjKeys == {PyRef(id) : id \in ObjIds} \cup {PyTuple(<<PyRef(id)>>) : id \in ObjIds}

\* the digest rec computes for the instance when it carries none
ComputedDigest(id) ==
    HashDigest(update_for_dataclass(new_hash, Deref(id)).hash)

\* KeyBuilder()(key): rec reads the digest an instance carries, and stores
\* the digest it computed on an instance that carried none
KeyBuilder_call(key) ==
    LET r == IF Refs(key) = {} THEN HashOf[key]
             ELSE KeyBuilderCall(ResolveKey(key))
    IN /\ last' = Completed(0, "owner", "__call__", key, PyNone, r.exc,
                            IF r.exc = "" THEN r.hex ELSE PyNone)
       /\ heap' = [id \in ObjIds |->
                     IF id \in Refs(key) /\ heap[id].memo = <<>>
                     THEN [heap[id] EXCEPT !.memo = <<ComputedDigest(id)>>]
                     ELSE heap[id]]
       /\ UNCHANGED <<cls, rows, cache, changes, pc, stored, disk, conns>>

\* instance.x = value
Obj_setattr(id, value) ==
    /\ heap' = [heap EXCEPT ![id].x = value]
    /\ last' = Completed(0, "owner", "__setattr__", PyRef(id), value, "", PyNone)
    /\ UNCHANGED <<cls, rows, cache, changes, pc, stored, disk, conns>>

NextHash ==
    \/ \E key \in HashKeys \cup ObjKeys :
           KeyBuilder_call(key) /\ UNCHANGED misses
    \/ \E id \in ObjIds, value \in {PyInt(1), PyInt(2)} :
           Obj_setattr(id, value) /\ UNCHANGED misses

SpecHash == Init /\ [][NextHash]_vars

\* KeyBuilder.update_for_int(key_hash, key) on a new hash object; the call
\* returns nothing, ret is what key_hash has been fed
KeyBuilder_update_for_int(key) ==
    LET r == update_for_int(new_hash, key)
    IN /\ last' = Completed(0, "owner", "update_for_int", key, PyNone, r.exc,
                            r.hash)
       /\ UNCHANGED <<cls, rows, cache, changes, pc, stored, disk, conns, heap>>

NextInt ==
    \E key \in IntKeys : KeyBuilder_update_for_int(key) /\ UNCHANGED misses

SpecInt == Init /\ [][NextInt]_vars

\* ================================================================ claims
SameOutcome(a, b) == a.exc = b.exc /\ a.ret = b.ret

Digest(key) == KeyHash[key].hex

\* the value a row of the table holds for the key, as fetch would unpickle it
RowValues(key) == {loads(r.value) : r \in RowsWithKey(rows, Digest(key))}

\* C1: once store(key, v1) has put an entry in a write-once dictionary, a
\* store(key, v2) with v2 # v1 raises ReadOnlyEntryError, leaves the table as
\* it was, and fetch(key) on that handle still returns v1.
C1_WriteOnceImmutable ==
    [][\A h \in Handles, key \in Keys, v1 \in Values, v2 \in Values :
          (/\ v1 # v2
           /\ KeyHash[key].exc = ""
           /\ v1 \in RowValues(key)
           /\ WriteOnce_store(h, key, v2))
          => /\ last'.exc = "ReadOnlyEntryError"
             /\ rows' = rows
             /\ (FetchOutcome(cache[h], key).exc = "")'
             /\ (FetchOutcome(cache[h], key).ret = v1)']_vars

\* C2: in every reachable state, fetch(key) on a write-once handle raises or
\* returns the same with the handle's in-memory cache as with that cache
\* cleared.
C2_CacheTransparent ==
    \A h \in Handles, key \in Keys :
        cls = "WriteOnce"
        => SameOutcome(FetchOutcome(cache[h], key), FetchOutcome(<<>>, key))

\* C3: two write-once handles store different values under the same key:
\* the call that finds the entry empty returns normally, the call that comes
\* second raises ReadOnlyEntryError, and from then on fetch(key) on either
\* handle returns the value of the call that went through.
C3_WriteOnceRace ==
    [][\A h \in Handles, key \in Keys, value \in Values :
          WriteOnce_store(h, key, value) /\ KeyHash[key].exc = ""
          => /\ RowsWithKey(rows, Digest(key)) = {} => last'.exc = ""
             /\ (/\ last.op = "store" /\ last.exc = "" /\ last.h # h
                 /\ Digest(last.key) = Digest(key) /\ last.value # value)
                => /\ last'.exc = "ReadOnlyEntryError"
                   /\ \A g \in {h, last.h} :
                        /\ (FetchOutcome(cache[g], key).exc = "")'
                        /\ (FetchOutcome(cache[g], key))'.ret = last.value]_vars

\* C4: under both classes, a fetch(key) issued on a handle right after its
\* store(key, value) returned normally returns a value equal to value.
C4_RoundTrip ==
    [][\A h \in Handles, key \in Keys :
          (/\ last.op = "store" /\ last.exc = "" /\ last.thread = "owner"
           /\ last.h = h /\ last.key = key
           /\ (WriteOnce_fetch(h, key) \/ Persistent_fetch(h, key)))
          => last'.exc = "" /\ PyEq(last'.ret, last.value)]_vars

NeverStored(key) == \A k \in stored : ~PyEq(k, key)

\* C5: fetch(key), under both classes, and remove(key), under the mutable
\* class, raise NoSuchEntryError for a hashable key that no store call was
\* ever given, whatever other keys were stored.
C5_MissingKey ==
    [][\A h \in Handles, key \in Keys :
          KeyHash[key].exc = "" /\ NeverStored(key)
          => /\ (WriteOnce_fetch(h, key) \/ Persistent_fetch(h, key))
                => last'.exc = "NoSuchEntryError"
             /\ (Persistent_remove_changes(h) /\ pc[h].key = key)
                => last'.exc = "NoSuchEntryError"]_vars

FrozenKeys == {KCompileFrozen, KCompileFrozen2}

Without(seq, d) == SelectSeq(seq, LAMBDA x : x # d)

Present(key) == RowsWithKey(rows, Digest(key)) # {}

AnyStore(h, key, value) ==
    \/ WriteOnce_store(h, key, value)
    \/ WriteOnce_store_if_not_present(h, key, value)
    \/ Persistent_store(h, key, value)
    \/ Persistent_store_if_not_present(h, key, value)

\* C7 as stated: keys() lists every live entry at the place of its first
\* insertion: a store call on a present key, an overwrite included, leaves
\* keys() as it was, a store call on an absent key puts it last, and remove
\* takes the key out.
C7_FirstInsertionOrder ==
    [][\A h \in Handles, key \in Keys, value \in Values :
          KeyHash[key].exc = ""
          => /\ AnyStore(h, key, value)
                => keys' = IF Present(key) THEN keys
                           ELSE Append(keys, Digest(key))
             /\ Persistent_remove_delete(h, key)
                => keys' = Without(keys, Digest(key))]_vars

\* C7 amended: keys(), values() and items() list the live rows in the order
\* of each row's latest insertion (ascending rowid): a store call on an
\* absent key puts it last, store_if_not_present and the write-once store on
\* a present key change nothing, remove takes the key out and keeps the order
\* of the others, and an overwriting store() of the mutable class moves the
\* key from its place to the end.
C7_LatestInsertionOrder ==
    [][LET before == keys
           after == keys'
           vals == values'
           its == items'
       IN /\ \A h \in Handles, key \in Keys, value \in Values :
               KeyHash[key].exc = ""
               => /\ Persistent_store(h, key, value)
                     => after = Append(Without(before, Digest(key)), Digest(key))
                  /\ (\/ WriteOnce_store(h, key, value)
                      \/ WriteOnce_store_if_not_present(h, key, value)
                      \/ Persistent_store_if_not_present(h, key, value))
                     => after = IF Present(key) THEN before
                                ELSE Append(before, Digest(key))
                  /\ Persistent_remove_delete(h, key)
                     => after = Without(before, Digest(key))
          /\ Len(after) = len' /\ Len(vals) = len' /\ Len(its) = len'
          /\ \A i \in 1..Len(after) :
               /\ its[i] = <<after[i], vals[i]>>
               /\ \E r \in rows' : r.key = after[i] /\ loads(r.value) = vals[i]
          /\ \A i, j \in 1..Len(after) : i # j => after[i] # after[j]]_vars

\* an overwrite of the older of two entries has just moved it behind the other
C7_Witness ==
    /\ cls = "Mutable"
    /\ last.op = "store" /\ last.exc = ""
    /\ len = 2
    /\ keys[2] = Digest(last.key)
    /\ {r.rowid : r \in rows} = {2, 3}

\* C8: whatever other handles do to the table between the two statements of
\* remove(), and whatever other threads try on the same handle, remove(key)
\* raises NoSuchEntryError exactly when its own DELETE deleted no row and
\* returns normally exactly when it deleted the row.
C8_RemoveAtomic ==
    [][\A h \in Handles :
          Persistent_remove_changes(h)
          => /\ last'.op = "remove" /\ last'.h = h /\ last'.key = pc[h].key
             /\ last'.exc = "NoSuchEntryError" <=> pc[h].removed = 0
             /\ last'.exc = "" <=> pc[h].removed = 1]_vars

\* remove() has just raised NoSuchEntryError although the key has a row by
\* now: another handle stored it after this handle's DELETE found nothing
C8_Witness ==
    /\ cls = "Mutable"
    /\ last.op = "remove" /\ last.exc = "NoSuchEntryError"
    /\ Present(last.key)

\* C9: clear() is accepted by both classes and empties the table, so len()
\* is 0; on a write-once handle it also empties that handle's cache, so
\* fetch of every key raises NoSuchEntryError on that handle, and a fetch that
\* raises NoSuchEntryError on a write-once handle keeps raising it until a
\* store call inserts a row for the key.
C9_ClearEmptiesTableAndCache ==
    [][\A h \in Handles :
          /\ (WriteOnce_clear(h) \/ Persistent_clear(h))
             => /\ last'.exc = ""
                /\ rows' = {} /\ len' = 0
                /\ cls = "WriteOnce" => cache'[h] = <<>>
                /\ \A key \in Keys :
                     (cls = "WriteOnce" /\ KeyHash[key].exc = "")
                     => (FetchOutcome(cache[h], key).exc = "NoSuchEntryError")'
          /\ \A key \in Keys :
               (/\ cls = "WriteOnce" /\ KeyHash[key].exc = ""
                /\ FetchOutcome(cache[h], key).exc = "NoSuchEntryError"
                /\ ~(Present(key))')
               => (FetchOutcome(cache[h], key).exc = "NoSuchEntryError")']_vars

\* a fetch on a write-once handle misses a key that had been stored, fetched
\* and cached on that handle before the clear
C9_Witness ==
    /\ cls = "WriteOnce"
    /\ last.op = "fetch" /\ last.exc = "NoSuchEntryError"
    /\ last.key \in stored
    /\ rows = {} /\ cache[last.h] = <<>>

\* C10: clear_in_mem_cache() on a write-once handle empties that handle's
\* cache and nothing else: the rows of the table, hence its keys, values and
\* their order, and the caches of the other handles are as before.
C10_ClearInMemCacheFrame ==
    [][\A h \in Handles :
          WriteOnce_clear_in_mem_cache(h)
          => /\ cache'[h] = <<>>
             /\ \A g \in Handles \ {h} : cache'[g] = cache[g]
             /\ rows' = rows
             /\ items' = items]_vars

\* the cache of one handle was cleared while the table and the cache of
\* another handle still hold the entry
C10_Witness ==
    /\ last.op = "clear_in_mem_cache"
    /\ cache[last.h] = <<>>
    /\ rows # {}
    /\ \E g \in Handles \ {last.h} : cache[g] # <<>>

StoreIfNotPresent(h, key, value) ==
    \/ WriteOnce_store_if_not_present(h, key, value)
    \/ Persistent_store_if_not_present(h, key, value)

\* C11: under both classes, store_if_not_present(key, v2) on a key whose
\* digest has a row holding v1 raises nothing and leaves the table as it was:
\* the same rows, len() and keys(), and fetch(key) on the handle returns v1;
\* on a key whose digest has no row it inserts v2.
C11_StoreIfNotPresentNoOp ==
    [][\A h \in Handles, key \in Keys, v1 \in Values, v2 \in Values :
          KeyHash[key].exc = ""
          => /\ (v1 \in RowValues(key) /\ StoreIfNotPresent(h, key, v2))
                => /\ last'.exc = ""
                   /\ rows' = rows /\ len' = len /\ keys' = keys
                   /\ cls = "WriteOnce"
                      => /\ (FetchOutcome(cache[h], key).exc = "")'
                         /\ (FetchOutcome(cache[h], key).ret = v1)'
                   /\ cls = "Mutable" => RowValues(key)' = {v1}
             /\ (~Present(key) /\ StoreIfNotPresent(h, key, v2))
                => last'.exc = "" /\ RowValues(key)' = {v2}]_vars

\* C12: under the mutable class a store(key, v2) on a key that has a row
\* leaves exactly one row for the digest, holding v2, and len() as it was; a
\* fetch(key) right after a store(key, v2) returns v2.
C12_MutableOverwrite ==
    [][\A h \in Handles, key \in Keys, v2 \in Values :
          KeyHash[key].exc = ""
          => /\ (Present(key) /\ Persistent_store(h, key, v2))
                => /\ last'.exc = ""
                   /\ len' = len
                   /\ Cardinality(RowsWithKey(rows, Digest(key)))' = 1
                   /\ RowValues(key)' = {v2}
             /\ (/\ last.op = "store" /\ last.exc = "" /\ last.thread = "owner"
                 /\ last.key = key /\ last.value = v2
                 /\ Persistent_fetch(h, key))
                => last'.exc = "" /\ last'.ret = v2]_vars

\* a fetch has just returned the value of an overwrite: the only row is the
\* second one the table ever got
C12_Witness ==
    /\ cls = "Mutable"
    /\ last.op = "fetch" /\ last.thread = "owner" /\ last.exc = ""
    /\ last.ret = PyInt(7)
    /\ len = 1
    /\ {r.rowid : r \in rows} = {2}

SameName(c, d) ==
    c.container_dir = d.container_dir /\ c.identifier = d.identifier

\* C13 as stated: a value stored through one dictionary is returned by fetch
\* through every other dictionary opened with the same container directory
\* and identifier that has not fetched yet, and a store through one
\* dictionary leaves what the dictionaries opened with another identifier
\* see as it was.
C13_SameNameSameEntries ==
    [][\A i \in DOMAIN conns, j \in DOMAIN conns, value \in Values :
          (/\ last'.op = "store" /\ last'.exc = "" /\ last'.h = i
           /\ last'.value = value
           /\ Conn_store(i, KStrTrue, value))
          => /\ (SameName(conns[i], conns[j]) /\ conns[j].entries = <<>>)
                => /\ ConnFetchOutcome(j, KStrTrue)'.exc = ""
                   /\ ConnFetchOutcome(j, KStrTrue)'.ret = value
             /\ conns[i].identifier # conns[j].identifier
                => Table(conns[j].file)' = Table(conns[j].file)]_vars

SameFile(c, d) == SameName(c, d) /\ c.version_info = d.version_info

\* C13 amended: the file name is made of the container directory, the
\* identifier and the interpreter's sys.version_info.  A value stored through
\* one dictionary is returned by fetch through every other dictionary opened
\* with the same three that has not fetched yet; a store through one
\* dictionary leaves what every dictionary opened with another directory,
\* identifier or interpreter version sees as it was.
C13_SameFileSameEntries ==
    [][\A i \in DOMAIN conns, j \in DOMAIN conns, value \in Values :
          (/\ last'.op = "store" /\ last'.exc = "" /\ last'.h = i
           /\ last'.value = value
           /\ Conn_store(i, KStrTrue, value))
          => /\ (SameFile(conns[i], conns[j]) /\ conns[j].entries = <<>>)
                => /\ ConnFetchOutcome(j, KStrTrue)'.exc = ""
                   /\ ConnFetchOutcome(j, KStrTrue)'.ret = value
             /\ ~SameFile(conns[i], conns[j])
                => Table(conns[j].file)' = Table(conns[j].file)]_vars

\* a dictionary that never stored has fetched the value another one stored
C13_Witness ==
    /\ last.op = "fetch" /\ last.exc = ""
    /\ last.h \in DOMAIN conns
    /\ ~conns[last.h].wrote
    /\ \E j \in DOMAIN conns :
         j # last.h /\ conns[j].wrote /\ SameFile(conns[j], conns[last.h])

\* two calls of the key builder in a row, on built-in immutable values
TwoCalls ==
    /\ last.op = "__call__" /\ last.key \in HashKeys
    /\ last'.op = "__call__" /\ last'.key \in HashKeys
    /\ KeyBuilder_call(last'.key)

\* C14: the digest of None differs from the digest of every other value: a
\* str, a bytes, an int, a bool, an enum member, a tuple, a frozenset, a
\* frozendict.
C14_NoneSentinelUnambiguous ==
    [][(TwoCalls /\ last.key = PyNone /\ last'.key # PyNone)
       => last'.ret # last.ret]_vars

\* C15: two values that compare equal in Python, the int 1 and the bool True
\* included, get the same digest.
C15_EqualValuesHashEqual ==
    [][(TwoCalls /\ PyEq(last.key, last'.key))
       => last'.ret = last.ret]_vars

ElementsOf(key) ==
    IF key.kind = "frozenset" THEN {key.items[i] : i \in 1..Len(key.items)}
    ELSE {key.pairs[i] : i \in 1..Len(key.pairs)}

\* C16: two frozensets, or two frozendicts, that hold the same elements (or
\* pairs) in different iteration orders get the same digest, and two that
\* hold different sets of elements get different digests.
C16_PermutationInvariance ==
    [][(/\ TwoCalls
        /\ last.key.kind \in {"frozenset", "frozendict"}
        /\ last'.key.kind = last.key.kind)
       => /\ ElementsOf(last.key) = ElementsOf(last'.key)
             => last'.ret = last.ret
          /\ ~PyEq(last.key, last'.key) => last'.ret # last.ret]_vars

\* C17: for values a and b that do not compare equal, the digests of (a, b)
\* and (b, a) differ.
C17_OrderSensitivity ==
    [][(/\ TwoCalls
        /\ last.key.kind = "tuple" /\ last'.key.kind = "tuple"
        /\ last'.key.items = <<last.key.items[2], last.key.items[1]>>
        /\ ~PyEq(last.key.items[1], last.key.items[2]))
       => last'.ret # last.ret]_vars

\* C19: in every reachable state the digest an instance carries is the
\* digest a computation from its fields as they are now gives.
C19_MemoAgreesWithRecomputation ==
    \A id \in ObjIds :
        heap[id].memo # <<>> => heap[id].memo[1] = ComputedDigest(id)

KeyedCall(h, key, value) ==
    \/ AnyStore(h, key, value)
    \/ WriteOnce_fetch(h, key)
    \/ Persistent_fetch(h, key)
    \/ Persistent_remove_delete(h, key)

\* C18: store, store_if_not_present, fetch and remove with a key that holds,
\* at any depth, a value of a type without an update_for_ method (a dict, a
\* list) raise the TypeError that names that type, and leave the table, every
\* cache and the connections as they were.
C18_UnsupportedKeyNoEffect ==
    [][\A h \in Handles, key \in UnsupportedKeys, value \in Values :
          KeyedCall(h, key, value)
          => /\ last'.exc = "TypeError"
             /\ last'.key = key
             /\ KeyHash[key].arg
                  = (IF key \in {KDict, KCompileDict} THEN "dict" ELSE "list")
             /\ rows' = rows /\ cache' = cache
             /\ changes' = changes /\ pc' = pc]_vars

\* a fetch with a list two tuples deep in the key has just raised TypeError
\* on a write-once handle whose table and cache hold an entry
C18_Witness ==
    /\ cls = "WriteOnce"
    /\ last.op = "fetch" /\ last.thread = "owner" /\ last.exc = "TypeError"
    /\ last.key = KNestedList
    /\ rows # {} /\ cache[last.h] # <<>>

CachedDigests(entries) == {entries[i].key : i \in 1..Len(entries)}

\* C20: the cache of a write-once handle never holds more than
\* in_mem_cache_size entries, no digest twice.  A fetch that finds its digest
\* in the cache moves it to the most recently used end and keeps the order of
\* the others; a fetch that loads a digest into a full cache drops the entry
\* at the least recently used end, and never the digest of the fetch that
\* returned just before it; a digest that has a row and is not in the cache
\* is fetched from the table.
C20_LruBoundAndEviction ==
    [][\A h \in Handles :
          /\ Len(cache'[h]) <= InMemCacheSize
          /\ Cardinality(CachedDigests(cache'[h])) = Len(cache'[h])
          /\ \A key \in AllKeys :
               (KeyHash[key].exc = "" /\ WriteOnce_fetch(h, key))
               => LET d == Digest(key)
                      i == CacheIndex(cache[h], d)
                  IN /\ i # 0
                        => /\ cache'[h][Len(cache'[h])] = cache[h][i]
                           /\ SubSeq(cache'[h], 1, Len(cache'[h]) - 1)
                                = RemoveAt(cache[h], i)
                     /\ (i = 0 /\ Present(key))
                        => /\ last'.exc = "" /\ last'.ret \in RowValues(key)
                           /\ cache'[h][Len(cache'[h])]
                                = [key |-> d, result |-> last'.ret]
                           /\ SubSeq(cache'[h], 1, Len(cache'[h]) - 1)
                                = (IF Len(cache[h]) = InMemCacheSize
                                   THEN Tail(cache[h]) ELSE cache[h])
                     /\ (/\ last.op = "fetch" /\ last.exc = "" /\ last.h = h
                         /\ last.thread = "owner"
                         /\ InMemCacheSize >= 2)
                        => Digest(last.key) \in CachedDigests(cache'[h])]_vars

\* three digests have rows, the cache is full, a fetch has just put its
\* digest at the most recently used end, and the third digest is outside
\* the cache
C20_Witness ==
    /\ cls = "WriteOnce"
    /\ len = 3
    /\ last.op = "fetch" /\ last.thread = "owner" /\ last.exc = ""
    /\ Len(cache[last.h]) = InMemCacheSize
    /\ cache[last.h][InMemCacheSize].key = Digest(last.key)
    /\ \E r \in rows : r.key \notin CachedDigests(cache[last.h])

\* C21: under the write-once class a fetch(key) that raises NoSuchEntryError
\* leaves every cache as it was, and once a store(key, v) by any handle has
\* returned normally after it, the next fetch(key) on the handle that missed
\* returns v.
C21_MissesNotCached ==
    [][\A h \in Handles, key \in Keys :
          WriteOnce_fetch(h, key)
          => /\ last'.exc = "NoSuchEntryError" => cache' = cache
             /\ \A v \in Values :
                  <<h, key, v>> \in misses.owed
                  => last'.exc = "" /\ last'.ret = v]_vars

\* the magnitude of 2^(8 * sz - 1)
SignBit(sz) == Zeros(sz - 1) \o <<128>>

MagLess(a, b) ==
    \/ Len(a) < Len(b)
    \/ /\ Len(a) = Len(b)
       /\ \E i \in 1..Len(a) :
            a[i] < b[i] /\ \A j \in (i + 1)..Len(a) : a[j] = b[j]

\* -2^(8 * sz - 1) <= n <= 2^(8 * sz - 1) - 1
Holds(n, sz) ==
    \/ MagLess(n.mag, SignBit(sz))
    \/ n.neg /\ n.mag = SignBit(sz)

RECURSIVE IsWidth(_)
IsWidth(sz) == sz = 8 \/ (sz > 8 /\ sz % 2 = 0 /\ IsWidth(sz \div 2))

RECURSIVE Strip(_)
Strip(bytes) ==
    IF bytes = <<>> \/ bytes[Len(bytes)] # 0 THEN bytes
    ELSE Strip(SubSeq(bytes, 1, Len(bytes) - 1))

\* the integer a signed little-endian two's complement byte string stands for
Decode(bytes) ==
    IF bytes[Len(bytes)] >= 128
    THEN [neg |-> TRUE, mag |-> Strip(TwosComplement(bytes, 1))]
    ELSE [neg |-> FALSE, mag |-> Strip(bytes)]

IntCall ==
    /\ last'.op = "update_for_int"
    /\ KeyBuilder_update_for_int(last'.key)

\* C22: update_for_int feeds the hash the signed little-endian two's
\* complement form of the integer, in the smallest width of 8, 16, 32, ...
\* bytes that holds it, for every integer; two calls with different integers
\* feed different byte strings; 2^63 - 1 and -2^63 take 8 bytes, 2^63 and
\* -2^63 - 1 take 16.
C22_IntWidthAndInjectivity ==
    [][IntCall
       => LET n == Long(last'.key)
              bytes == last'.ret[1].raw
              sz == Len(bytes)
          IN /\ last'.exc = "" /\ Len(last'.ret) = 1
             /\ IsWidth(sz) /\ Holds(n, sz)
             /\ sz > 8 => ~Holds(n, sz \div 2)
             /\ Decode(bytes) = n
             /\ (last.op = "update_for_int" /\ Long(last.key) # n)
                => last.ret # last'.ret
             /\ n.mag = [i \in 1..8 |-> IF i = 8 THEN 127 ELSE 255] /\ ~n.neg
                => sz = 8
             /\ n.mag = SignBit(8) => sz = (IF n.neg THEN 8 ELSE 16)
             /\ n.mag = <<1>> \o SignBit(7) /\ n.neg => sz = 16]_vars

\* update_for_int has fed the hash the 16 bytes of 2^63, the least integer
\* above the 8-byte range
C22_Witness ==
    /\ last.op = "update_for_int" /\ last.exc = ""
    /\ Long(last.key) = [neg |-> FALSE, mag |-> SignBit(8)]
    /\ Len(last.ret[1].raw) = 16

====
